---- MODULE Spec2Model ----
(***************************************************************************)
(* Model of the feed aggregation pipeline (scripts/fetch_feeds.mjs) and of *)
(* the files it leaves for the browsing front end.                         *)
(*                                                                         *)
(* Strings that the code inspects character by character (titles,          *)
(* summaries, links, keywords) are sequences of UTF-16 code units.  A      *)
(* missing, null or empty string is the empty sequence <<>>: every place   *)
(* of the code that reads such a value tests it for truthiness only.       *)
(* Strings the code only copies (feed id, name, category, error message)   *)
(* are TLA+ strings.                                                       *)
(* The rule-based tags of an item (computeTags) are left out of the item   *)
(* record: no operation modelled here reads them.                          *)
(***************************************************************************)
EXTENDS Integers, Sequences, FiniteSets, TLC

(***************************************************************************)
(* Text helpers                                                            *)
(***************************************************************************)

\* String.prototype.toLowerCase on one code unit (ASCII range).
LowerCode(c) == IF c >= 65 /\ c <= 90 THEN c + 32 ELSE c

toLowerCase(s) == [i \in 1..Len(s) |-> LowerCode(s[i])]

\* \s of the regular expressions and of trim(): space, tab, LF, VT, FF, CR, NBSP.
IsSpace(c) == c \in {32, 9, 10, 11, 12, 13, 160}

\* \w of the regular expressions.
IsWordChar(c) ==
    \/ (c >= 48 /\ c <= 57)
    \/ (c >= 65 /\ c <= 90)
    \/ (c >= 97 /\ c <= 122)
    \/ c = 95

\* pat occurs in s at index i; ci: compare case-insensitively.
MatchAt(s, i, pat, ci) ==
    /\ i >= 1
    /\ i + Len(pat) - 1 <= Len(s)
    /\ \A k \in 1..Len(pat) :
          IF ci THEN LowerCode(s[i + k - 1]) = LowerCode(pat[k])
                ELSE s[i + k - 1] = pat[k]

\* The least element of a non-empty set of numbers.
Least(S) == CHOOSE x \in S : \A y \in S : x <= y

\* Least index >= i at which pat occurs in s, or 0.
FindFrom(s, i, pat, ci) ==
    LET hits == {j \in i..(Len(s) - Len(pat) + 1) : MatchAt(s, j, pat, ci)}
    IN IF hits = {} THEN 0 ELSE Least(hits)

\* String.prototype.includes
includes(h, n) == \E j \in 1..(Len(h) - Len(n) + 1) : MatchAt(h, j, n, FALSE)

\* String.prototype.trimEnd
trimEnd(s) ==
    LET solid == {i \in 1..Len(s) : ~IsSpace(s[i])}
    IN IF solid = {} THEN <<>> ELSE SubSeq(s, 1, -Least({-i : i \in solid}))

trimStart(s) ==
    LET solid == {i \in 1..Len(s) : ~IsSpace(s[i])}
    IN IF solid = {} THEN <<>> ELSE SubSeq(s, Least(solid), Len(s))

\* String.prototype.trim
trim(s) == trimEnd(trimStart(s))

\* String.prototype.slice(0, n) for n >= 0, on code units.
slice0(s, n) == SubSeq(s, 1, IF n < Len(s) THEN n ELSE Len(s))

CDATA_OPEN == <<60, 33, 91, 67, 68, 65, 84, 65, 91>>
CDATA_CLOSE == <<93, 93, 62>>
SCRIPT_OPEN == <<60, 115, 99, 114, 105, 112, 116>>
SCRIPT_CLOSE == <<60, 47, 115, 99, 114, 105, 112, 116, 62>>
STYLE_OPEN == <<60, 115, 116, 121, 108, 101>>
STYLE_CLOSE == <<60, 47, 115, 116, 121, 108, 101, 62>>

\* .replace(/<!\[CDATA\[(.*?)\]\]>/gs, '$1'), scanning from index i: the text
\* up to the next wrapper that is closed, the inside of the wrapper, and on.
RECURSIVE UnwrapCdata(_, _)
UnwrapCdata(s, i) ==
    LET opens == {j \in i..Len(s) :
                    /\ MatchAt(s, j, CDATA_OPEN, FALSE)
                    /\ FindFrom(s, j + Len(CDATA_OPEN), CDATA_CLOSE, FALSE) # 0}
    IN IF opens = {} THEN SubSeq(s, i, Len(s))
       ELSE LET j == Least(opens)
                e == FindFrom(s, j + Len(CDATA_OPEN), CDATA_CLOSE, FALSE)
            IN SubSeq(s, i, j - 1) \o SubSeq(s, j + Len(CDATA_OPEN), e - 1)
                  \o UnwrapCdata(s, e + Len(CDATA_CLOSE))

\* .replace(/<script\b[^<]*(?:(?!<\/script>)<[^<]*)*<\/script>/gi, '') and the
\* same for style: an opening "<name" at a word boundary, up to and including
\* the first closing tag after it, is removed.
RECURSIVE RemoveBlocks(_, _, _, _)
RemoveBlocks(s, i, open, close) ==
    LET opens == {j \in i..Len(s) :
                    /\ MatchAt(s, j, open, TRUE)
                    /\ j + Len(open) <= Len(s)
                    /\ ~IsWordChar(s[j + Len(open)])
                    /\ FindFrom(s, j + Len(open), close, TRUE) # 0}
    IN IF opens = {} THEN SubSeq(s, i, Len(s))
       ELSE LET j == Least(opens)
                e == FindFrom(s, j + Len(open), close, TRUE)
            IN SubSeq(s, i, j - 1) \o RemoveBlocks(s, e + Len(close), open, close)

\* .replace(/<[^>]*>/g, ' '): a tag runs from a '<' to the first '>' after it.
RECURSIVE ReplaceTags(_, _)
ReplaceTags(s, i) ==
    LET opens == {j \in i..Len(s) : s[j] = 60 /\ \E e \in (j + 1)..Len(s) : s[e] = 62}
    IN IF opens = {} THEN SubSeq(s, i, Len(s))
       ELSE LET j == Least(opens)
                e == Least({k \in (j + 1)..Len(s) : s[k] = 62})
            IN SubSeq(s, i, j - 1) \o <<32>> \o ReplaceTags(s, e + 1)

\* .replace(/\s+/g, ' '): the first code unit of a run of white space becomes a
\* space and the rest of the run goes.
CollapseSpace(s) ==
    LET marked == [i \in 1..Len(s) |->
                     IF ~IsSpace(s[i]) THEN s[i]
                     ELSE IF i > 1 /\ IsSpace(s[i - 1]) THEN -1
                     ELSE 32]
    IN SelectSeq(marked, LAMBDA c : c # -1)

stripHtml(input) ==
    IF input = <<>> THEN <<>>
    ELSE LET a == UnwrapCdata(input, 1)
             b == RemoveBlocks(a, 1, SCRIPT_OPEN, SCRIPT_CLOSE)
             c == RemoveBlocks(b, 1, STYLE_OPEN, STYLE_CLOSE)
             d == ReplaceTags(c, 1)
             e == CollapseSpace(d)
         IN trim(e)

\* The literal appended by truncate, as the source file holds it: the three
\* characters U+00E2 U+20AC U+00A6.
ELLIPSIS == <<226, 8364, 166>>

truncate(s, maxLen) ==
    LET t == trim(s)
    IN IF Len(t) <= maxLen THEN t
       ELSE trimEnd(slice0(t, maxLen - 1)) \o ELLIPSIS

\* The bound normalizeItem passes to truncate.
SUMMARY_MAX == 280

(***************************************************************************)
(* fnv1a: FNV-1a, 32 bits.  A 32-bit word is kept as two 16-bit halves     *)
(* <<hi, lo>>, which is Math.imul and >>> 0 without leaving the integers   *)
(* of the checker.                                                         *)
(***************************************************************************)

RECURSIVE BitXor(_, _)
BitXor(a, b) ==
    IF a = 0 THEN b
    ELSE IF b = 0 THEN a
    ELSE (((a % 2) + (b % 2)) % 2) + 2 * BitXor(a \div 2, b \div 2)

\* h ^= c; h = Math.imul(h, 0x01000193)
FnvStep(h, c) ==
    LET lo == BitXor(h[2], c)
        hi == h[1]
        p == lo * 403
    IN << (hi * 403 + (lo % 256) * 256 + (p \div 65536)) % 65536, p % 65536 >>

RECURSIVE FnvFold(_, _, _)
FnvFold(h, str, i) ==
    IF i > Len(str) THEN h ELSE FnvFold(FnvStep(h, str[i]), str, i + 1)

HexDigit(d) == IF d < 10 THEN 48 + d ELSE 87 + d

\* (h >>> 0).toString(16).padStart(8, '0')
Hex8(h) ==
    << HexDigit(h[1] \div 4096), HexDigit((h[1] \div 256) % 16),
       HexDigit((h[1] \div 16) % 16), HexDigit(h[1] % 16),
       HexDigit(h[2] \div 4096), HexDigit((h[2] \div 256) % 16),
       HexDigit((h[2] \div 16) % 16), HexDigit(h[2] % 16) >>

fnv1a(str) == Hex8(FnvFold(<<33052, 40389>>, str, 1))

(***************************************************************************)
(* Dates.  A date string is a record: k = "date" for a string Date.parse   *)
(* reads as the instant t (fmt tells the ISO form toISOString writes from  *)
(* the other forms a feed may send), k = "garbage" for a string Date.parse *)
(* reads as NaN, k = "absent" for a missing field or null.                 *)
(***************************************************************************)

NoDate == [k |-> "absent", fmt |-> "none", t |-> 0]

\* new Date(t).toISOString()
toISOString(t) == [k |-> "date", fmt |-> "iso", t |-> t]

\* Date.parse: nan is TRUE for NaN.
DateParse(d) == IF d.k = "date" THEN [nan |-> FALSE, t |-> d.t] ELSE [nan |-> TRUE, t |-> 0]

\* Date.parse(x) || 0
DateParseOrZero(d) == IF DateParse(d).nan THEN 0 ELSE DateParse(d).t

safeIsoDate(maybeDate) ==
    IF maybeDate.k = "absent" THEN NoDate
    ELSE IF DateParse(maybeDate).nan THEN NoDate
    ELSE toISOString(DateParse(maybeDate).t)

\* The decimal digits of n: the text of an instant inside a template string.
RECURSIVE Digits(_)
Digits(n) == IF n < 10 THEN <<48 + n>> ELSE Digits(n \div 10) \o <<48 + (n % 10)>>

DateText(d) == IF d.k = "date" THEN Digits(d.t) ELSE <<>>

(***************************************************************************)
(* cleanUrl.  new URL(raw) succeeds when raw starts with a scheme (a       *)
(* letter, then letters, digits, '+', '-', '.', then ':').  The links of   *)
(* the model are written in the form URL.toString() gives back, so that    *)
(* parsing changes nothing but the query.                                  *)
(***************************************************************************)

RECURSIVE IndexOf(_, _, _)
IndexOf(s, c, i) ==
    IF i > Len(s) THEN 0 ELSE IF s[i] = c THEN i ELSE IndexOf(s, c, i + 1)

IsAlpha(c) == (c >= 65 /\ c <= 90) \/ (c >= 97 /\ c <= 122)

CanParseUrl(raw) ==
    LET colon == IndexOf(raw, 58, 1)
    IN /\ colon > 1
       /\ IsAlpha(raw[1])
       /\ \A i \in 2..(colon - 1) :
             IsAlpha(raw[i]) \/ (raw[i] >= 48 /\ raw[i] <= 57) \/ raw[i] \in {43, 45, 46}

\* The non-empty pieces of s between occurrences of the code unit c.
RECURSIVE SplitOn(_, _)
SplitOn(s, c) ==
    IF s = <<>> THEN <<>>
    ELSE LET i == IndexOf(s, c, 1)
         IN IF i = 0 THEN <<s>>
            ELSE IF i = 1 THEN SplitOn(SubSeq(s, 2, Len(s)), c)
            ELSE <<SubSeq(s, 1, i - 1)>> \o SplitOn(SubSeq(s, i + 1, Len(s)), c)

RECURSIVE JoinWith(_, _)
JoinWith(parts, c) ==
    IF parts = <<>> THEN <<>>
    ELSE IF Len(parts) = 1 THEN parts[1]
    ELSE parts[1] \o <<c>> \o JoinWith(Tail(parts), c)

\* The name of a query pair "name=value".
ParamName(pair) ==
    LET eq == IndexOf(pair, 61, 1)
    IN IF eq = 0 THEN pair ELSE SubSeq(pair, 1, eq - 1)

SeqRange(s) == {s[i] : i \in 1..Len(s)}

cleanUrl(rawUrl, stripParams) ==
    IF rawUrl = <<>> THEN <<>>
    ELSE IF ~CanParseUrl(rawUrl) THEN rawUrl
    ELSE LET h == IndexOf(rawUrl, 35, 1)
             beforeHash == IF h = 0 THEN rawUrl ELSE SubSeq(rawUrl, 1, h - 1)
             fragment == IF h = 0 THEN <<>> ELSE SubSeq(rawUrl, h, Len(rawUrl))
             q == IndexOf(beforeHash, 63, 1)
             base == IF q = 0 THEN beforeHash ELSE SubSeq(beforeHash, 1, q - 1)
             query == IF q = 0 THEN <<>> ELSE SubSeq(beforeHash, q + 1, Len(beforeHash))
             pairs == SplitOn(query, 38)
             \* for (const p of stripParams) u.searchParams.delete(p)
             kept == SelectSeq(pairs, LAMBDA p : ParamName(p) \notin SeqRange(stripParams))
             \* if no key is left, u.search = ''
             search == IF kept = <<>> THEN <<>> ELSE <<63>> \o JoinWith(kept, 38)
             \* u.hash reads as '' for an empty fragment, so the test
             \* u.hash === '#' compares '' or '#x...' with '#'
             hashGetter == IF Len(fragment) <= 1 THEN <<>> ELSE fragment
             hash == IF hashGetter = <<35>> THEN <<>> ELSE fragment
         IN base \o search \o hash

(***************************************************************************)
(* Keyword filter                                                          *)
(***************************************************************************)

\* The include test without lowering the haystack: a match by case only is lost.
containsAny_CaseSensitive(haystack, needles) ==
    IF needles = <<>> THEN TRUE
    ELSE \E i \in 1..Len(needles) : includes(haystack, toLowerCase(needles[i]))

containsAny(haystack, needles) ==
    IF needles = <<>> THEN TRUE
    ELSE LET h == toLowerCase(haystack)
         IN \E i \in 1..Len(needles) : includes(h, toLowerCase(needles[i]))

excludedByAny(haystack, excludes) ==
    IF excludes = <<>> THEN FALSE
    ELSE LET h == toLowerCase(haystack)
         IN \E i \in 1..Len(excludes) : includes(h, toLowerCase(excludes[i]))

(***************************************************************************)
(* normalizeItem.  now is what new Date() reads when the fallback is used. *)
(***************************************************************************)

UNTITLED == <<40, 117, 110, 116, 105, 116, 108, 101, 100, 41>>

\* a || b on strings
OrElse(a, b) == IF a # <<>> THEN a ELSE b

\* a || b on the results of safeIsoDate
OrElseDate(a, b) == IF a.k = "date" THEN a ELSE b

\* item.link || item.guid || (links.length ? links[0]?.url : null)
ResolveLink(item) ==
    OrElse(item.link, OrElse(item.guid, IF Len(item.links) > 0 THEN item.links[1] ELSE <<>>))

\* The chain of safeIsoDate calls; NoDate when none parses.
ResolvePublished(item) ==
    OrElseDate(safeIsoDate(item.isoDate),
    OrElseDate(safeIsoDate(item.pubDate),
    OrElseDate(safeIsoDate(item.published),
    OrElseDate(safeIsoDate(item.date),
    OrElseDate(safeIsoDate(item.updated), NoDate)))))

ResolveSummary(item) ==
    OrElse(item.contentSnippet, OrElse(item.summary, OrElse(item.content, item.contentEncoded)))

\* `${n.title} ${n.summary}`
CombinedText(title, summary) == title \o <<32>> \o summary

\* normalizeItem with published always the run time, the parsed date unused.
normalizeItem_AlwaysNow(feedDef, item, stripParams, now) ==
    LET title == OrElse(stripHtml(item.title), UNTITLED)
        url == cleanUrl(ResolveLink(item), stripParams)
        published == ResolvePublished(item)
        summary == truncate(stripHtml(ResolveSummary(item)), SUMMARY_MAX)
        stableIdSeed == OrElse(url, feedDef.id \o <<124>> \o title \o <<124>> \o DateText(published))
    IN [ id |-> fnv1a(stableIdSeed),
         title |-> title,
         url |-> url,
         source |-> feedDef.name,
         sourceId |-> feedDef.id,
         category |-> IF feedDef.category # "" THEN feedDef.category ELSE "Uncategorized",
         published |-> toISOString(now),
         summary |-> summary ]

normalizeItem(feedDef, item, stripParams, now) ==
    LET title == OrElse(stripHtml(item.title), UNTITLED)
        url == cleanUrl(ResolveLink(item), stripParams)
        published == ResolvePublished(item)
        summary == truncate(stripHtml(ResolveSummary(item)), SUMMARY_MAX)
        stableIdSeed == OrElse(url, feedDef.id \o <<124>> \o title \o <<124>> \o DateText(published))
    IN [ id |-> fnv1a(stableIdSeed),
         title |-> title,
         url |-> url,
         source |-> feedDef.name,
         sourceId |-> feedDef.id,
         category |-> IF feedDef.category # "" THEN feedDef.category ELSE "Uncategorized",
         published |-> IF published.k = "date" THEN published ELSE toISOString(now),
         summary |-> summary ]

\* The test without its first line, if (!n.url) continue.
KeepItem_NoUrlCheck(feedDef, n) ==
    LET text == CombinedText(n.title, n.summary)
        include == feedDef.keywords.include
        exclude == feedDef.keywords.exclude
    IN /\ ~(include # <<>> /\ ~containsAny(text, include))
       /\ ~(exclude # <<>> /\ excludedByAny(text, exclude))

\* The test of the loop of main that keeps or skips a normalized item.
KeepItem(feedDef, n) ==
    LET text == CombinedText(n.title, n.summary)
        include == feedDef.keywords.include
        exclude == feedDef.keywords.exclude
    IN /\ n.url # <<>>
       /\ ~(include # <<>> /\ ~containsAny(text, include))
       /\ ~(exclude # <<>> /\ excludedByAny(text, exclude))

(***************************************************************************)
(* Merge and rank, as the tail of main computes them.                      *)
(***************************************************************************)

\* Index of the entry of acc whose url is key, or 0: byUrl.get(key).
RECURSIVE IndexOfUrl(_, _, _)
IndexOfUrl(acc, key, i) ==
    IF i > Len(acc) THEN 0
    ELSE IF acc[i].url = key THEN i
    ELSE IndexOfUrl(acc, key, i + 1)

\* The test with > for >=: of two items tied for a url the first seen stays.
ReplacesExisting_Strict(it, existing) ==
    DateParseOrZero(it.published) > DateParseOrZero(existing.published)

\* if (tNew >= tOld) byUrl.set(key, it)
ReplacesExisting(it, existing) ==
    DateParseOrZero(it.published) >= DateParseOrZero(existing.published)

\* One turn of the dedupe loop.  acc is the Map in insertion order: setting
\* an existing key keeps the key's place.
DedupeStep(acc, it) ==
    LET k == IndexOfUrl(acc, it.url, 1)
    IN IF k = 0 THEN Append(acc, it)
       ELSE IF ReplacesExisting(it, acc[k]) THEN [acc EXCEPT ![k] = it]
       ELSE acc

RECURSIVE DedupeFrom(_, _, _)
DedupeFrom(acc, list, i) ==
    IF i > Len(list) THEN acc ELSE DedupeFrom(DedupeStep(acc, list[i]), list, i + 1)

\* Array.from(byUrl.values()) after the loop over all
Dedupe(list) == DedupeFrom(<<>>, list, 1)

\* The comparator with a and b exchanged: oldest first.
NewestFirst_Reversed(a, b) == DateParseOrZero(a.published) - DateParseOrZero(b.published)

\* The comparator of deduped.sort: negative when a sorts before b.
NewestFirst(a, b) == DateParseOrZero(b.published) - DateParseOrZero(a.published)

\* x put after the last element that does not sort after it.
RECURSIVE InsertSorted(_, _, _)
InsertSorted(sorted, x, i) ==
    IF i > Len(sorted) THEN Append(sorted, x)
    ELSE IF NewestFirst(x, sorted[i]) < 0
         THEN SubSeq(sorted, 1, i - 1) \o <<x>> \o SubSeq(sorted, i, Len(sorted))
         ELSE InsertSorted(sorted, x, i + 1)

RECURSIVE SortFrom(_, _, _)
SortFrom(sorted, list, i) ==
    IF i > Len(list) THEN sorted
    ELSE SortFrom(InsertSorted(sorted, list[i], 1), list, i + 1)

\* Array.prototype.sort with the comparator: a stable sort.
SortNewestFirst(list) == SortFrom(<<>>, list, 1)

\* deduped.slice(0, defaults.maxTotalItems)
Limit(list, maxTotalItems) == slice0(list, maxTotalItems)

(***************************************************************************)
(* The environment: feeds.yml as YAML.parse reads it, and what each feed   *)
(* source answers.  undefined is <<>>, a set value v is <<v>>.             *)
(***************************************************************************)

\* Longest feed document the sources of the model send.
MaxEntries == 2

\* Last instant the clock of the model reaches.
MaxClock == 2

DEFAULT_MAX_ITEMS_PER_FEED == 40
DEFAULT_MAX_TOTAL_ITEMS == 700
DEFAULT_TIMEOUT_MS == 25000

\* a ?? b
Nullish(v, d) == IF v = <<>> THEN d ELSE v[1]

KW_PRIVACY == <<112, 114, 105, 118, 97, 99, 121>>
KW_GDPR == <<103, 100, 112, 114>>
PARAM_UTM == <<117, 116, 109>>

Feed1 ==
    [ id |-> <<102, 49>>, name |-> "Regulators", url |-> "https://one.example/rss",
      category |-> "Policy", maxItemsPerFeed |-> <<1>>,
      keywords |-> [include |-> <<KW_PRIVACY>>, exclude |-> <<KW_GDPR>>] ]

Feed2 ==
    [ id |-> <<102, 50>>, name |-> "Trade press", url |-> "https://two.example/atom",
      category |-> "", maxItemsPerFeed |-> <<>>,
      keywords |-> [include |-> <<>>, exclude |-> <<>>] ]

NoDefaults ==
    [ maxItemsPerFeed |-> <<>>, maxTotalItems |-> <<>>, timeoutMs |-> <<>>,
      stripUrlParams |-> <<>> ]

SmallDefaults ==
    [ maxItemsPerFeed |-> <<2>>, maxTotalItems |-> <<2>>, timeoutMs |-> <<>>,
      stripUrlParams |-> <<PARAM_UTM>> ]

\* readable: fs.readFile succeeds; feedsIsArray: cfg && Array.isArray(cfg.feeds).
YamlPool ==
    { [readable |-> FALSE, feedsIsArray |-> FALSE, feeds |-> <<>>, defaults |-> NoDefaults],
      [readable |-> TRUE, feedsIsArray |-> FALSE, feeds |-> <<>>, defaults |-> NoDefaults],
      [readable |-> TRUE, feedsIsArray |-> TRUE, feeds |-> <<>>, defaults |-> SmallDefaults],
      [readable |-> TRUE, feedsIsArray |-> TRUE, feeds |-> <<Feed2>>, defaults |-> NoDefaults],
      [readable |-> TRUE, feedsIsArray |-> TRUE, feeds |-> <<Feed1, Feed2>>,
       defaults |-> SmallDefaults] }

Rfc822(t) == [k |-> "date", fmt |-> "rfc822", t |-> t]
Garbage == [k |-> "garbage", fmt |-> "none", t |-> 0]

EmptyEntry ==
    [ title |-> <<>>, link |-> <<>>, guid |-> <<>>, links |-> <<>>,
      isoDate |-> NoDate, pubDate |-> NoDate, published |-> NoDate, date |-> NoDate,
      updated |-> NoDate,
      contentSnippet |-> <<>>, summary |-> <<>>, content |-> <<>>, contentEncoded |-> <<>> ]

URL_A1 == <<104, 116, 116, 112, 58, 47, 47, 97, 47, 49>>
URL_A1_UTM == <<104, 116, 116, 112, 58, 47, 47, 97, 47, 49, 63, 117, 116, 109, 61, 120>>
URL_A2 == <<104, 116, 116, 112, 58, 47, 47, 97, 47, 50>>
URL_A3 == <<104, 116, 116, 112, 58, 47, 47, 97, 47, 51>>
NOT_A_URL == <<110, 111, 116, 32, 97, 32, 117, 114, 108>>

\* 278 letters, one character outside the basic plane (two code units), 20 letters.
LongText ==
    [i \in 1..300 |-> IF i = 279 THEN 55357 ELSE IF i = 280 THEN 56832 ELSE 97]

\* Entries the first source may send: its feed has include and exclude keywords.
PoolA ==
    { [EmptyEntry EXCEPT !.title = <<65, 100, 32, 110, 101, 119, 115>>, !.link = URL_A1,
                         !.contentSnippet = <<80, 114, 105, 118, 97, 99, 121, 32, 108, 97, 119>>],
      [EmptyEntry EXCEPT !.title = <<80, 114, 105, 118, 97, 99, 121, 32, 97, 110, 100, 32, 71, 68, 80, 82>>, !.link = URL_A2,
                         !.isoDate = toISOString(2)],
      [EmptyEntry EXCEPT !.title = <<65, 100, 32, 110, 101, 119, 115>>, !.link = URL_A3, !.published = Rfc822(1)] }

\* Entries the second source may send: its feed has no keywords.
PoolB ==
    { [EmptyEntry EXCEPT !.guid = URL_A1_UTM, !.isoDate = Garbage, !.pubDate = Rfc822(1),
                         !.summary = <<60, 98, 62, 80, 114, 105, 118, 97, 99, 121, 60, 47, 98, 62, 32, 32, 97, 99, 116>>],
      [EmptyEntry EXCEPT !.title = <<65, 100, 32, 110, 101, 119, 115>>, !.link = NOT_A_URL, !.content = LongText],
      [EmptyEntry EXCEPT !.title = <<65, 100, 32, 110, 101, 119, 115>>, !.links = <<URL_A1>>, !.updated = Rfc822(2)],
      [EmptyEntry EXCEPT !.title = <<71, 68, 80, 82, 32, 102, 105, 110, 101>>, !.link = URL_A3, !.date = Rfc822(0),
                         !.contentEncoded = <<60, 112, 62, 102, 105, 110, 101, 60, 47, 112, 62>>],
      [EmptyEntry EXCEPT !.title = <<60, 98, 62, 80, 82, 73, 86, 65, 67, 89, 60, 47, 98, 62>>, !.isoDate = toISOString(2)] }

PoolOf(feedDef) == IF feedDef.id = Feed1.id THEN PoolA ELSE PoolB

\* The sequences over S of length at most n.
SeqsUpTo(S, n) == UNION {[1..m -> S] : m \in 0..n}

\* How a fetch and parse of one source can end.
Failures == {"timeout", "http", "network", "parse"}

\* e?.message || String(e) for each failure.
ErrorMessage(outcome) ==
    CASE outcome = "timeout" -> "This operation was aborted"
      [] outcome = "http" -> "HTTP 503 Service Unavailable"
      [] outcome = "network" -> "fetch failed"
      [] OTHER -> "Feed not recognized as RSS 1 or 2."

\* The documents a source may send.  main reads items.slice(0, cap) only, so
\* one entry beyond the cap stands for any number of them.
Responses(feedDef, cap) ==
    LET longest == IF cap + 1 < MaxEntries THEN cap + 1 ELSE MaxEntries
    IN {[outcome |-> o, items |-> <<>>] : o \in Failures}
         \cup {[outcome |-> "ok", items |-> d] : d \in SeqsUpTo(PoolOf(feedDef), longest)}

\* feedDef.maxItemsPerFeed ?? defaults.maxItemsPerFeed
MaxItemsOf(feedDef, defaults) == Nullish(feedDef.maxItemsPerFeed, defaults.maxItemsPerFeed[1])

(***************************************************************************)
(* State.  feedsYml, remote, the clock and the two files of data/ belong   *)
(* to the environment; the rest is the memory of one run of main and is    *)
(* gone when the process ends.                                             *)
(***************************************************************************)

VARIABLES
    feedsYml,    \* feeds.yml, as YAML.parse reads it
    remote,      \* remote[i]: what the source of feed i answers
    now,         \* the clock
    newsFile,    \* data/news.json
    metaFile,    \* data/meta.json
    pc,          \* where main is
    cfg,         \* const cfg = await loadConfig()
    feedIdx,     \* the feed the for loop of main is at
    items,       \* items.slice(0, maxItems) of the feed being normalized
    entryIdx,    \* the entry the inner loop is at
    normalized,  \* const normalized = []
    all,         \* const all = []
    errors,      \* const errors = []
    deduped,     \* const deduped
    limited,     \* const limited
    meta,        \* const meta
    mergeRuns    \* how many times this run entered the merge stage

\* The front end (the page and its script).
VARIABLES
    state,       \* let state = migrateOrDefault(loadStateRaw())
    storage,     \* localStorage[STORAGE_KEY]: <<>> when there is no item
    lastEvent,   \* the handler that ran last, and the id it was given
    before,      \* state as it was when that handler began
    events       \* the handlers run so far

pipeline ==
    << feedsYml, remote, now, newsFile, metaFile, pc, cfg, feedIdx, items, entryIdx,
       normalized, all, errors, deduped, limited, meta, mergeRuns >>

ui == <<state, storage, lastEvent, before, events>>

vars == <<pipeline, ui>>

env == <<feedsYml, remote>>
files == <<newsFile, metaFile>>

NoCfg == [defaults |-> NoDefaults, feeds |-> <<>>]
NoMeta == [generatedAt |-> NoDate, feedCount |-> 0, itemCount |-> 0, errors |-> <<>>]

\* A file: state is "partial" (opened for writing and truncated, the text not
\* yet all written) or "complete"; gen tells whether this run ("new") or an
\* earlier one ("old") wrote it.  data/ holds what an earlier run that found
\* no item left there.
OldNews == [state |-> "complete", gen |-> "old", data |-> <<>>]
OldMeta ==
    [ state |-> "complete", gen |-> "old",
      data |-> [generatedAt |-> toISOString(0), feedCount |-> 0, itemCount |-> 0,
                errors |-> <<>>] ]

Terminal == {"exit0", "exit1", "killed"}

\* The memory of a process that has ended.
LocalsCleared ==
    /\ cfg' = NoCfg
    /\ feedIdx' = 0
    /\ items' = <<>>
    /\ entryIdx' = 0
    /\ normalized' = <<>>
    /\ all' = <<>>
    /\ errors' = <<>>
    /\ deduped' = <<>>
    /\ limited' = <<>>
    /\ meta' = NoMeta
    /\ mergeRuns' = 0

\* loadConfig: what it returns for a readable, valid feeds.yml.
loadConfig(yaml) ==
    [ defaults |->
        [ maxItemsPerFeed |-> <<Nullish(yaml.defaults.maxItemsPerFeed, DEFAULT_MAX_ITEMS_PER_FEED)>>,
          maxTotalItems |-> <<Nullish(yaml.defaults.maxTotalItems, DEFAULT_MAX_TOTAL_ITEMS)>>,
          timeoutMs |-> <<Nullish(yaml.defaults.timeoutMs, DEFAULT_TIMEOUT_MS)>>,
          stripUrlParams |-> yaml.defaults.stripUrlParams ],
      feeds |-> yaml.feeds ]

\* loadConfig throws: readFile fails, or the test of cfg and cfg.feeds does.
ConfigThrows(yaml) == ~yaml.readable \/ ~yaml.feedsIsArray

\* One response for each configured feed.
RemoteChoices(yaml) ==
    LET n == Len(yaml.feeds)
        R(i) == Responses(yaml.feeds[i], MaxItemsOf(yaml.feeds[i], loadConfig(yaml).defaults))
    IN IF n = 0 THEN {<<>>}
       ELSE IF n = 1 THEN {<<r>> : r \in R(1)}
       ELSE {<<r1, r2>> : r1 \in R(1), r2 \in R(2)}

(***************************************************************************)
(* The front end: the state kept in localStorage                           *)
(***************************************************************************)

SCHEMA_VERSION == 2

MAX_READ == 2000

\* The handlers a behaviour of the front end runs at most.
MaxEvents == 3

\* An item id is a number here; 0 stands for the ids Boolean() takes for
\* false (the empty string, a missing id).
Truthy(id) == id # 0

\* const base of migrateOrDefault. null is <<>>, an array a is <<a>>.
base ==
    [ schemaVersion |-> SCHEMA_VERSION,
      query |-> "",
      timeRange |-> "all",
      hideRead |-> FALSE,
      categories |-> <<>>,
      sources |-> <<>>,
      readIds |-> <<>> ]

\* loadStateRaw: null when there is no item. JSON.parse(JSON.stringify(st))
\* gives st back for the strings, booleans, null and arrays of truthy ids a
\* state holds.
loadStateRaw(store) == store

migrateOrDefault(raw) ==
    IF raw = <<>> THEN base
    ELSE IF raw[1].schemaVersion # SCHEMA_VERSION
         THEN [base EXCEPT !.readIds = raw[1].readIds]
         ELSE [raw[1] EXCEPT !.schemaVersion = SCHEMA_VERSION]

\* new Set(arr), as Array.from lists it: the elements of arr in the order of
\* their first occurrence. arr holds truthy ids only, so 0 marks a repeat.
SetFrom(arr) ==
    IF Cardinality({arr[i] : i \in 1..Len(arr)}) = Len(arr) THEN arr
    ELSE LET firsts == [i \in 1..Len(arr) |->
                           IF \A j \in 1..(i - 1) : arr[j] # arr[i] THEN arr[i] ELSE 0]
         IN SelectSeq(firsts, Truthy)

SetHas(s, id) == \E i \in 1..Len(s) : s[i] = id

\* s.add(id): an element the set holds keeps its place.
SetAdd(s, id) == IF SetHas(s, id) THEN s ELSE Append(s, id)

readSetFromState(st) == SetFrom(SelectSeq(st.readIds, Truthy))

\* arr.slice(0, MAX_READ) in place of arr.slice(arr.length - MAX_READ).
writeReadSetToState_KeepsFirst(st, readSet) ==
    [st EXCEPT !.readIds = IF Len(readSet) > MAX_READ
                           THEN SubSeq(readSet, 1, MAX_READ)
                           ELSE readSet]

writeReadSetToState(st, readSet) ==
    [st EXCEPT !.readIds = IF Len(readSet) > MAX_READ
                           THEN SubSeq(readSet, Len(readSet) - MAX_READ + 1, Len(readSet))
                           ELSE readSet]

isRead(itemId) == SetHas(readSetFromState(state), itemId)

\* What localStorage can hold after saveState(st): setItem can throw (quota,
\* storage disabled) and the catch ignores it.
Saved(st) == {<<st>>, storage}

NoEvent == [op |-> "none", id |-> 0]

\* The ids 1, ..., n in this order.
FirstIds(n) == [i \in 1..n |-> i]

\* What an earlier visit of the page can have left in localStorage: nothing,
\* or the state after the items 1, 2, ... were opened one after the other.
EarlierVisits ==
    { <<>>,
      <<[base EXCEPT !.readIds = FirstIds(MAX_READ - 1)]>>,
      <<[base EXCEPT !.readIds = FirstIds(MAX_READ), !.hideRead = TRUE]>> }

\* The ids of the items the page can show in a card.
ItemIds == {1, MAX_READ, MAX_READ + 1, MAX_READ + 2}

\* The page is not open.
PageClosed ==
    /\ state = base
    /\ storage = <<>>
    /\ lastEvent = NoEvent
    /\ before = base
    /\ events = 0

Init ==
    /\ feedsYml \in YamlPool
    /\ remote \in RemoteChoices(feedsYml)
    /\ now = 1
    /\ newsFile = OldNews
    /\ metaFile = OldMeta
    /\ pc = "idle"
    /\ cfg = NoCfg
    /\ feedIdx = 0
    /\ items = <<>>
    /\ entryIdx = 0
    /\ normalized = <<>>
    /\ all = <<>>
    /\ errors = <<>>
    /\ deduped = <<>>
    /\ limited = <<>>
    /\ meta = NoMeta
    /\ mergeRuns = 0
    /\ PageClosed

\* The instants the clock can show at the next step: it does not run backwards.
ClockReadings == {t \in {now, now + 1} : t <= MaxClock}

\* main().catch: console.error(err); process.exit(1)
ExitOne ==
    /\ pc' = "exit1"
    /\ LocalsCleared

LoadConfigOk ==
    /\ pc = "idle"
    /\ ~ConfigThrows(feedsYml)
    /\ cfg' = loadConfig(feedsYml)
    /\ pc' = "mkdir"
    /\ UNCHANGED << env, now, files, feedIdx, items, entryIdx, normalized, all, errors,
                    deduped, limited, meta, mergeRuns >>
    /\ UNCHANGED ui

LoadConfigThrow ==
    /\ pc = "idle"
    /\ ConfigThrows(feedsYml)
    /\ ExitOne
    /\ UNCHANGED <<env, now, files>>
    /\ UNCHANGED ui

\* await fs.mkdir(DATA_DIR, {recursive: true}); const errors = []; const all = []
Mkdir ==
    /\ pc = "mkdir"
    /\ pc' = "loading"
    /\ feedIdx' = 1
    /\ errors' = <<>>
    /\ all' = <<>>
    /\ UNCHANGED << env, now, files, cfg, items, entryIdx, normalized, deduped, limited,
                    meta, mergeRuns >>
    /\ UNCHANGED ui

\* fs.mkdir rejects: main rejects before the loop.
MkdirFail ==
    /\ pc = "mkdir"
    /\ ExitOne
    /\ UNCHANGED <<env, now, files>>
    /\ UNCHANGED ui

\* parseFeedFromUrl resolves: the try block starts on the parsed items.
FetchOk ==
    /\ pc = "loading"
    /\ feedIdx <= Len(cfg.feeds)
    /\ remote[feedIdx].outcome = "ok"
    /\ items' = slice0(remote[feedIdx].items, MaxItemsOf(cfg.feeds[feedIdx], cfg.defaults))
    /\ normalized' = <<>>
    /\ entryIdx' = 1
    /\ pc' = "normalizing"
    /\ UNCHANGED <<env, now, files, cfg, feedIdx, all, errors, deduped, limited, meta, mergeRuns>>
    /\ UNCHANGED ui

\* A catch block that also empties what the earlier feeds gave.
FetchFail_DropsAll ==
    /\ pc = "loading"
    /\ feedIdx <= Len(cfg.feeds)
    /\ remote[feedIdx].outcome \in Failures
    /\ errors' = Append(errors,
                   [ id |-> cfg.feeds[feedIdx].id, name |-> cfg.feeds[feedIdx].name,
                     url |-> cfg.feeds[feedIdx].url,
                     error |-> ErrorMessage(remote[feedIdx].outcome) ])
    /\ all' = <<>>
    /\ feedIdx' = feedIdx + 1
    /\ UNCHANGED << env, now, files, pc, cfg, items, entryIdx, normalized, deduped,
                    limited, meta, mergeRuns >>
    /\ UNCHANGED ui

\* fetchText or parser.parseString throws: the catch block of the loop.
FetchFail ==
    /\ pc = "loading"
    /\ feedIdx <= Len(cfg.feeds)
    /\ remote[feedIdx].outcome \in Failures
    /\ errors' = Append(errors,
                   [ id |-> cfg.feeds[feedIdx].id, name |-> cfg.feeds[feedIdx].name,
                     url |-> cfg.feeds[feedIdx].url,
                     error |-> ErrorMessage(remote[feedIdx].outcome) ])
    /\ feedIdx' = feedIdx + 1
    /\ UNCHANGED << env, now, files, pc, cfg, items, entryIdx, normalized, all, deduped,
                    limited, meta, mergeRuns >>
    /\ UNCHANGED ui

\* One turn of the inner loop; t is the clock when normalizeItem runs.
NormalizeEntry ==
    /\ pc = "normalizing"
    /\ entryIdx <= Len(items)
    /\ \E t \in ClockReadings :
          LET n == normalizeItem(cfg.feeds[feedIdx], items[entryIdx],
                                 cfg.defaults.stripUrlParams, t)
          IN /\ now' = t
             /\ normalized' = IF KeepItem(cfg.feeds[feedIdx], n)
                              THEN Append(normalized, n) ELSE normalized
    /\ entryIdx' = entryIdx + 1
    /\ UNCHANGED <<env, files, pc, cfg, feedIdx, items, all, errors, deduped, limited, meta, mergeRuns>>
    /\ UNCHANGED ui

\* all.push(...normalized), and on to the next feed
FeedDone ==
    /\ pc = "normalizing"
    /\ entryIdx > Len(items)
    /\ all' = all \o normalized
    /\ feedIdx' = feedIdx + 1
    /\ pc' = "loading"
    /\ items' = <<>>
    /\ entryIdx' = 0
    /\ normalized' = <<>>
    /\ UNCHANGED <<env, now, files, cfg, errors, deduped, limited, meta, mergeRuns>>
    /\ UNCHANGED ui

\* The merge stage entered one feed early.
Merge_Early ==
    /\ pc = "loading"
    /\ feedIdx >= Len(cfg.feeds)
    /\ deduped' = Dedupe(all)
    /\ mergeRuns' = mergeRuns + 1
    /\ pc' = "ranking"
    /\ UNCHANGED <<env, now, files, cfg, feedIdx, items, entryIdx, normalized, all, errors, limited, meta>>
    /\ UNCHANGED ui

\* The for loop over feeds has ended: dedupe by URL.
Merge ==
    /\ pc = "loading"
    /\ feedIdx > Len(cfg.feeds)
    /\ deduped' = Dedupe(all)
    /\ mergeRuns' = mergeRuns + 1
    /\ pc' = "ranking"
    /\ UNCHANGED <<env, now, files, cfg, feedIdx, items, entryIdx, normalized, all, errors, limited, meta>>
    /\ UNCHANGED ui

\* deduped.sort(...) sorts in place; const limited = deduped.slice(0, maxTotalItems)
Rank ==
    /\ pc = "ranking"
    /\ deduped' = SortNewestFirst(deduped)
    /\ limited' = Limit(SortNewestFirst(deduped), cfg.defaults.maxTotalItems[1])
    /\ pc' = "assembling"
    /\ UNCHANGED <<env, now, files, cfg, feedIdx, items, entryIdx, normalized, all, errors, meta, mergeRuns>>
    /\ UNCHANGED ui

\* const meta = {generatedAt: new Date().toISOString(), ...}
Assemble ==
    /\ pc = "assembling"
    /\ \E t \in ClockReadings :
          /\ now' = t
          /\ meta' = [ generatedAt |-> toISOString(t), feedCount |-> Len(cfg.feeds),
                       itemCount |-> Len(limited), errors |-> errors ]
    /\ pc' = "writeNews"
    /\ UNCHANGED <<env, files, cfg, feedIdx, items, entryIdx, normalized, all, errors, deduped, limited, mergeRuns>>
    /\ UNCHANGED ui

\* fs.writeFile opens the file with flag 'w': it is truncated before any text
\* is written.
WriteNewsOpen ==
    /\ pc = "writeNews"
    /\ newsFile' = [state |-> "partial", gen |-> "new", data |-> <<>>]
    /\ pc' = "writingNews"
    /\ UNCHANGED <<env, now, metaFile, cfg, feedIdx, items, entryIdx, normalized, all, errors, deduped, limited, meta, mergeRuns>>
    /\ UNCHANGED ui

\* The whole text of JSON.stringify(limited) is in the file.
WriteNewsDone ==
    /\ pc = "writingNews"
    /\ newsFile' = [state |-> "complete", gen |-> "new", data |-> limited]
    /\ pc' = "writeMeta"
    /\ UNCHANGED <<env, now, metaFile, cfg, feedIdx, items, entryIdx, normalized, all, errors, deduped, limited, meta, mergeRuns>>
    /\ UNCHANGED ui

WriteMetaOpen ==
    /\ pc = "writeMeta"
    /\ metaFile' = [state |-> "partial", gen |-> "new", data |-> NoMeta]
    /\ pc' = "writingMeta"
    /\ UNCHANGED <<env, now, newsFile, cfg, feedIdx, items, entryIdx, normalized, all, errors, deduped, limited, meta, mergeRuns>>
    /\ UNCHANGED ui

WriteMetaDone ==
    /\ pc = "writingMeta"
    /\ metaFile' = [state |-> "complete", gen |-> "new", data |-> meta]
    /\ pc' = "logging"
    /\ UNCHANGED <<env, now, newsFile, cfg, feedIdx, items, entryIdx, normalized, all, errors, deduped, limited, meta, mergeRuns>>
    /\ UNCHANGED ui

\* A writeFile rejects (the open fails, or a write after it): main rejects and
\* the file stays as the failed call left it.
WriteFail ==
    /\ pc \in {"writeNews", "writingNews", "writeMeta", "writingMeta"}
    /\ ExitOne
    /\ UNCHANGED <<env, now, files>>
    /\ UNCHANGED ui

\* The console.log lines; main resolves and the process ends with code 0.
Finish ==
    /\ pc = "logging"
    /\ pc' = "exit0"
    /\ LocalsCleared
    /\ UNCHANGED <<env, now, files>>
    /\ UNCHANGED ui

\* The process is stopped from outside (a cancelled or timed-out job).
Kill ==
    /\ pc \notin Terminal
    /\ pc' = "killed"
    /\ LocalsCleared
    /\ UNCHANGED <<env, now, files>>
    /\ UNCHANGED ui

Next ==
    \/ LoadConfigOk
    \/ LoadConfigThrow
    \/ Mkdir
    \/ MkdirFail
    \/ FetchOk
    \/ FetchFail
    \/ NormalizeEntry
    \/ FeedDone
    \/ Merge
    \/ Rank
    \/ Assemble
    \/ WriteNewsOpen
    \/ WriteNewsDone
    \/ WriteMetaOpen
    \/ WriteMetaDone
    \/ WriteFail
    \/ Finish
    \/ Kill

Spec == Init /\ [][Next]_vars

(***************************************************************************)
(* The front end: the handlers                                             *)
(***************************************************************************)

\* A handler of the page begins: it is the next event.
Handle(op, id) ==
    /\ events < MaxEvents
    /\ events' = events + 1
    /\ lastEvent' = [op |-> op, id |-> id]
    /\ before' = state
    /\ UNCHANGED pipeline

\* The script is loaded: let state = migrateOrDefault(loadStateRaw()).
PageLoad ==
    /\ Handle("load", 0)
    /\ state' = migrateOrDefault(loadStateRaw(storage))
    /\ UNCHANGED storage

\* The click handler of a card's title link: markRead(it.id).
MarkRead ==
    \E itemId \in ItemIds :
       /\ Handle("markRead", itemId)
       /\ state' = writeReadSetToState(state, SetAdd(readSetFromState(state), itemId))
       /\ storage' \in Saved(state')

\* The click handler of the clearRead button.
ClearRead ==
    /\ Handle("clearRead", 0)
    /\ state' = [state EXCEPT !.readIds = <<>>]
    /\ storage' \in Saved(state')

\* The input handler of the search box.
SetQuery ==
    \E q \in {"", "ads"} :
       /\ q # state.query
       /\ Handle("query", 0)
       /\ state' = [state EXCEPT !.query = q]
       /\ storage' \in Saved(state')

\* The change handler of the time range select.
SetTimeRange ==
    \E r \in {"all", "7d"} :
       /\ r # state.timeRange
       /\ Handle("timeRange", 0)
       /\ state' = [state EXCEPT !.timeRange = r]
       /\ storage' \in Saved(state')

\* The change handler of the hideRead checkbox.
SetHideRead ==
    /\ Handle("hideRead", 0)
    /\ state' = [state EXCEPT !.hideRead = ~state.hideRead]
    /\ storage' \in Saved(state')

\* The change handler of a filter checkbox where the items have one category
\* (one source): setSelection stores null when all values are selected and
\* the array of the selected ones otherwise.
ToggleFilter ==
    \E key \in {"categories", "sources"} :
       /\ Handle(key, 0)
       /\ state' = [state EXCEPT ![key] = IF state[key] = <<>> THEN << <<>> >> ELSE <<>>]
       /\ storage' \in Saved(state')

\* The click handler of the resetFilters button.
ResetFilters ==
    /\ Handle("resetFilters", 0)
    /\ state' = [state EXCEPT !.query = "", !.timeRange = "all", !.hideRead = FALSE,
                              !.categories = <<>>, !.sources = <<>>]
    /\ storage' \in Saved(state')

\* The page is opened in a browser that an earlier visit may have used.
InitUI ==
    /\ feedsYml = [readable |-> FALSE, feedsIsArray |-> FALSE, feeds |-> <<>>,
                   defaults |-> NoDefaults]
    /\ remote = <<>>
    /\ now = 1
    /\ newsFile = OldNews
    /\ metaFile = OldMeta
    /\ pc = "idle"
    /\ cfg = NoCfg
    /\ feedIdx = 0
    /\ items = <<>>
    /\ entryIdx = 0
    /\ normalized = <<>>
    /\ all = <<>>
    /\ errors = <<>>
    /\ deduped = <<>>
    /\ limited = <<>>
    /\ meta = NoMeta
    /\ mergeRuns = 0
    /\ storage \in EarlierVisits
    /\ state = migrateOrDefault(loadStateRaw(storage))
    /\ lastEvent = NoEvent
    /\ before = state
    /\ events = 0

NextUI ==
    \/ PageLoad
    \/ MarkRead
    \/ ClearRead
    \/ SetQuery
    \/ SetTimeRange
    \/ SetHideRead
    \/ ToggleFilter
    \/ ResetFilters

SpecUI == InitUI /\ [][NextUI]_vars


(***************************************************************************)
(* Properties                                                              *)
(***************************************************************************)

Feeds == feedsYml.feeds
FeedIds == 1..Len(Feeds)
FailedFeeds == {i \in FeedIds : remote[i].outcome \in Failures}
Strip == feedsYml.defaults.stripUrlParams
CapOf(i) == MaxItemsOf(Feeds[i], loadConfig(feedsYml).defaults)
MaxTotal == Nullish(feedsYml.defaults.maxTotalItems, DEFAULT_MAX_TOTAL_ITEMS)

\* The stages of a run after the loop over the feeds, while main still holds
\* its variables.
AfterLoop == {"ranking", "assembling", "writeNews", "writingNews", "writeMeta",
              "writingMeta", "logging"}
AfterRank == AfterLoop \ {"ranking"}
AfterAssemble == AfterRank \ {"assembling"}

Stamp(it) == DateParseOrZero(it.published)

\* What feed i hands to the merge stage when the clock shows t throughout:
\* nothing when its fetch or parse fails.
RECURSIVE YieldFrom(_, _, _, _)
YieldFrom(i, doc, k, t) ==
    IF k > Len(doc) THEN <<>>
    ELSE LET n == normalizeItem(Feeds[i], doc[k], Strip, t)
         IN (IF KeepItem(Feeds[i], n) THEN <<n>> ELSE <<>>) \o YieldFrom(i, doc, k + 1, t)

YieldOf(i, t) ==
    IF i \in FailedFeeds THEN <<>>
    ELSE YieldFrom(i, slice0(remote[i].items, CapOf(i)), 1, t)

\* The same when no feed fails, the documents of the failing ones left out.
RECURSIVE AllFrom(_, _)
AllFrom(i, t) == IF i > Len(Feeds) THEN <<>> ELSE YieldOf(i, t) \o AllFrom(i + 1, t)

\* a is the item r but for a published value that fell back to the run time;
\* r and r2 are the item as two different run times give it.
SameButFallback(a, r, r2) ==
    IF r = r2 THEN a = r ELSE [a EXCEPT !.published = r.published] = r

ErrorsExact(errs) ==
    /\ Len(errs) = Cardinality(FailedFeeds)
    /\ \A i \in FeedIds :
          Cardinality({k \in 1..Len(errs) : errs[k].id = Feeds[i].id})
             = IF i \in FailedFeeds THEN 1 ELSE 0

\* C1: whatever subset of the feeds fails to fetch or parse, the run goes on
\* to the next feed or to the merge stage; the items handed to the merge stage
\* are those of the feeds that did not fail, feed by feed and entry by entry,
\* as if no feed had failed; each failing feed has exactly one error record
\* and no other feed has one, in main and in the metadata written.
C1_FailureIsolation ==
    /\ pc = "loading" => ENABLED (FetchOk \/ FetchFail \/ Merge)
    /\ pc \in AfterLoop => ErrorsExact(errors)
    /\ pc = "ranking" =>
          LET r == AllFrom(1, 0)
              r2 == AllFrom(1, 1)
          IN /\ Len(all) = Len(r)
             /\ \A k \in 1..Len(all) : SameButFallback(all[k], r[k], r2[k])
    /\ (metaFile.gen = "new" /\ metaFile.state = "complete") =>
          ErrorsExact(metaFile.data.errors)

\* A run has ended normally with one feed failed and an item of the other feed
\* in the items file.
C1_Witness ==
    /\ pc = "exit0"
    /\ Len(Feeds) = 2
    /\ Cardinality(FailedFeeds) = 1
    /\ newsFile.gen = "new" /\ newsFile.state = "complete"
    /\ Len(newsFile.data) > 0
    /\ Len(metaFile.data.errors) = 1

\* The items of list whose url is u, as indices.
WithUrl(list, u) == {k \in 1..Len(list) : list[k].url = u}

\* Of the items of list with the url u, the last one among those with the
\* greatest timestamp.
Survivor(list, u) ==
    LET ks == WithUrl(list, u)
        top == {k \in ks : \A j \in ks : Stamp(list[k]) >= Stamp(list[j])}
    IN list[-Least({-k : k \in top})]

\* C2: the deduplicated list holds exactly one item for each url among the
\* items of all feeds, and it is one with the greatest published timestamp for
\* that url, the later-seen one among those tied for it (a published value
\* that does not parse counting as 0).
C2_Dedupe ==
    pc = "ranking" =>
       /\ {deduped[k].url : k \in 1..Len(deduped)} = {all[k].url : k \in 1..Len(all)}
       /\ \A k \in 1..Len(deduped) :
             /\ Cardinality(WithUrl(deduped, deduped[k].url)) = 1
             /\ deduped[k] = Survivor(all, deduped[k].url)

\* Two items with one url and one timestamp, told apart by their feed, were
\* merged, and so were two with different timestamps.
C2_Witness ==
    /\ pc = "ranking"
    /\ \E i, j \in 1..Len(all) :
          /\ i < j
          /\ all[i].url = all[j].url
          /\ Stamp(all[i]) = Stamp(all[j])
          /\ all[i].sourceId # all[j].sourceId
    /\ \E i, j \in 1..Len(all) :
          /\ i < j
          /\ all[i].url = all[j].url
          /\ Stamp(all[i]) > Stamp(all[j])

SortedNewestFirst(list) ==
    \A i, j \in 1..Len(list) : i < j => Stamp(list[i]) >= Stamp(list[j])

DistinctStamps(list) ==
    \A i, j \in 1..Len(list) : i # j => Stamp(list[i]) # Stamp(list[j])

SeqItems(list) == {list[k] : k \in 1..Len(list)}

\* C3: the items artifact is sorted newest first and holds
\* min(maxTotalItems, number of deduplicated items) of the deduplicated items;
\* when their timestamps are distinct, every deduplicated item left out is
\* older than every item kept.  The items file, once written, is that list.
C3_Rank ==
    /\ pc \in AfterRank =>
          /\ SortedNewestFirst(limited)
          /\ Len(limited) = (IF MaxTotal < Len(deduped) THEN MaxTotal ELSE Len(deduped))
          /\ SeqItems(limited) \subseteq SeqItems(deduped)
          /\ SeqItems(deduped) = SeqItems(Dedupe(all))
          /\ DistinctStamps(deduped) =>
                \A d \in SeqItems(deduped) \ SeqItems(limited) :
                   \A l \in SeqItems(limited) : Stamp(d) < Stamp(l)
    /\ (pc \in AfterRank /\ newsFile.gen = "new" /\ newsFile.state = "complete") =>
          newsFile.data = limited

\* Three deduplicated items with distinct timestamps, two of them written.
C3_Witness ==
    /\ pc = "logging"
    /\ Len(deduped) > MaxTotal
    /\ DistinctStamps(deduped)
    /\ Len(newsFile.data) = MaxTotal
    /\ MaxTotal > 1

\* C4: the two files are always a pair: both complete, and both written by
\* the same run (this one, or the earlier one whose files the run found).
C4_PairAtomic ==
    /\ newsFile.state = "complete"
    /\ metaFile.state = "complete"
    /\ newsFile.gen = metaFile.gen

EmptyOrMissingFeedList ==
    ~feedsYml.readable \/ ~feedsYml.feedsIsArray \/ feedsYml.feeds = <<>>

\* C5: with an empty or missing feed list the run goes from the start to
\* exit code 1 only, and leaves both files as it found them.
C5_EmptyOrMissingIsFatal ==
    EmptyOrMissingFeedList =>
       /\ pc \in {"idle", "exit1", "killed"}
       /\ newsFile = OldNews
       /\ metaFile = OldMeta

\* The list with every published value left out of the comparison.
WithoutPublished(list) == [k \in 1..Len(list) |-> [list[k] EXCEPT !.published = NoDate]]

\* The items artifact of the run over the same feeds.yml and the same answers
\* of the sources in which the clock shows t throughout.
ArtifactAt(t) == Limit(SortNewestFirst(Dedupe(AllFrom(1, t))), MaxTotal)

\* The error list every run over the same feeds.yml and answers ends with.
RECURSIVE ErrorsFrom(_)
ErrorsFrom(i) ==
    IF i > Len(Feeds) THEN <<>>
    ELSE (IF i \in FailedFeeds
          THEN << [ id |-> Feeds[i].id, name |-> Feeds[i].name, url |-> Feeds[i].url,
                    error |-> ErrorMessage(remote[i].outcome) ] >>
          ELSE <<>>) \o ErrorsFrom(i + 1)

\* No entry a feed hands to normalizeItem lacks a date that parses.
NoFallbackToNow ==
    \A i \in FeedIds \ FailedFeeds :
       \A k \in 1..Len(slice0(remote[i].items, CapOf(i))) :
          ResolvePublished(remote[i].items[k]).k = "date"

\* C6 as stated: every run over the same configuration, feed contents and
\* fetch outcomes ends with the items artifact of the run in which the clock
\* stands still, item by item in the same order (published values apart),
\* and with the same error list.
C6_SameArtifactEveryRun ==
    pc = "assembling" =>
       /\ WithoutPublished(limited) = WithoutPublished(ArtifactAt(1))
       /\ errors = ErrorsFrom(1)

\* C6 amended: the error list is the same in every such run; the items
\* artifact is the same, published values included, when no entry falls back
\* to the run time; and two items with one canonical url have one id.
C6_Determinism ==
    pc = "assembling" =>
       /\ errors = ErrorsFrom(1)
       /\ NoFallbackToNow => limited = ArtifactAt(1)
       /\ \A i, j \in 1..Len(all) : all[i].url = all[j].url => all[i].id = all[j].id

\* The clock moved during a run without fallback, which kept an item and saw
\* two entries with different links and titles come to one canonical url.
C6_Witness ==
    /\ pc = "assembling"
    /\ NoFallbackToNow
    /\ now > 1
    /\ Len(limited) > 0
    /\ \E i, j \in 1..Len(all) :
          /\ all[i].url = all[j].url
          /\ all[i].title # all[j].title

IsHighSurrogate(c) == c >= 55296 /\ c <= 56319

EndsWith(s, suffix) ==
    Len(s) >= Len(suffix) /\ SubSeq(s, Len(s) - Len(suffix) + 1, Len(s)) = suffix

\* C7: for the cleaned summary text of every entry, truncate gives at most
\* SUMMARY_MAX code units ending in the ellipsis marker, the marker not put
\* after the first half of a surrogate pair, when the text is longer than
\* SUMMARY_MAX; and the text itself, without the marker, otherwise.
C7_TruncateContract ==
    \A k \in 1..Len(items) :
       LET clean == stripHtml(ResolveSummary(items[k]))
           out == truncate(clean, SUMMARY_MAX)
           body == SubSeq(out, 1, Len(out) - Len(ELLIPSIS))
       IN IF Len(clean) > SUMMARY_MAX
          THEN /\ Len(out) <= SUMMARY_MAX
               /\ EndsWith(out, ELLIPSIS)
               /\ ~(Len(body) > 0 /\ IsHighSurrogate(body[Len(body)]))
          ELSE out = clean /\ ~EndsWith(out, ELLIPSIS)

\* text holds kw as a substring, case apart.
ContainsCI(text, kw) ==
    \E j \in 1..(Len(text) - Len(kw) + 1) :
       \A k \in 1..Len(kw) : LowerCode(text[j + k - 1]) = LowerCode(kw[k])

\* The rule of the keyword filter for the item n of a feed.
PassesKeywords(feedDef, n) ==
    LET text == n.title \o <<32>> \o n.summary
        inc == feedDef.keywords.include
        exc == feedDef.keywords.exclude
    IN /\ inc = <<>> \/ \E i \in 1..Len(inc) : ContainsCI(text, inc[i])
       /\ exc = <<>> \/ \A i \in 1..Len(exc) : ~ContainsCI(text, exc[i])

\* The entries 1..upto of doc that have a url and pass the rule, normalized.
RECURSIVE ExpectedKept(_, _, _, _)
ExpectedKept(feedDef, doc, k, upto) ==
    IF k > upto THEN <<>>
    ELSE LET n == normalizeItem(feedDef, doc[k], Strip, 0)
         IN (IF n.url # <<>> /\ PassesKeywords(feedDef, n) THEN <<n>> ELSE <<>>)
               \o ExpectedKept(feedDef, doc, k + 1, upto)

\* C8: of the entries of a feed normalized so far, those with a url that
\* are kept are exactly those that pass the keyword rule: some include
\* keyword in title+summary when there are include keywords, and no exclude
\* keyword in it, case apart.
C8_KeywordFilter ==
    pc = "normalizing" =>
       WithoutPublished(normalized)
          = WithoutPublished(ExpectedKept(Feeds[feedIdx], items, 1, entryIdx - 1))

\* The feed with include "privacy" and exclude "gdpr" kept an entry that has
\* "Privacy" in its summary only.
C8_Witness ==
    /\ pc = "normalizing"
    /\ Feeds[feedIdx].keywords.include = <<KW_PRIVACY>>
    /\ Feeds[feedIdx].keywords.exclude = <<KW_GDPR>>
    /\ entryIdx = 2
    /\ Len(normalized) = 1
    /\ ~ContainsCI(normalized[1].title, KW_PRIVACY)

\* A raw entry has a link, a guid or a first link with a url.
HasUrl(e) == e.link # <<>> \/ e.guid # <<>> \/ (Len(e.links) > 0 /\ e.links[1] # <<>>)

AllHaveUrl(list) == \A k \in 1..Len(list) : list[k].url # <<>>

\* C9: no item without url is kept, merged, ranked or written; an entry
\* without url adds no error record (every record is that of a feed whose
\* fetch or parse failed); and in a feed without keywords the entries kept
\* so far are as many as the entries with a url.
C9_NoUrlDropped ==
    /\ AllHaveUrl(normalized) /\ AllHaveUrl(all) /\ AllHaveUrl(deduped)
    /\ AllHaveUrl(limited) /\ AllHaveUrl(newsFile.data)
    /\ \A k \in 1..Len(errors) : \E i \in FailedFeeds : errors[k].id = Feeds[i].id
    /\ (pc = "normalizing" /\ Feeds[feedIdx].keywords = [include |-> <<>>, exclude |-> <<>>]) =>
          Len(normalized) = Cardinality({k \in 1..(entryIdx - 1) : HasUrl(items[k])})

\* A feed sent an entry without url and then one with: the second is kept and
\* the error list is empty.
C9_Witness ==
    /\ pc = "normalizing"
    /\ entryIdx = 3
    /\ ~HasUrl(items[1])
    /\ HasUrl(items[2])
    /\ Len(normalized) = 1
    /\ errors = <<>>

\* C10: the merge stage is entered at most once in a run and only when the
\* loop has passed every feed, each with its items handed over or with its one
\* error record; merging and ranking have produced nothing before that; the
\* metadata assembled counts the configured feeds, the failed feeds and the
\* items of the artifact, and so does the metadata written.
C10_JoinThenMeta ==
    /\ mergeRuns <= 1
    /\ pc \in AfterLoop =>
          /\ mergeRuns = 1
          /\ feedIdx = Len(Feeds) + 1
          /\ items = <<>> /\ normalized = <<>>
          /\ ErrorsExact(errors)
    /\ pc \notin AfterLoop => (mergeRuns = 0 /\ deduped = <<>> /\ limited = <<>>)
    /\ pc \in AfterAssemble =>
          /\ meta.feedCount = Len(Feeds)
          /\ Len(meta.errors) = Cardinality(FailedFeeds)
          /\ meta.itemCount = Len(limited)
    /\ (newsFile.gen = "new" /\ newsFile.state = "complete"
          /\ metaFile.gen = "new" /\ metaFile.state = "complete") =>
          /\ metaFile.data.feedCount = Len(Feeds)
          /\ Len(metaFile.data.errors) = Cardinality(FailedFeeds)
          /\ metaFile.data.itemCount = Len(newsFile.data)

\* Both files written by a run over two feeds, one failed, with two items.
C10_Witness ==
    /\ pc = "logging"
    /\ metaFile.gen = "new" /\ metaFile.state = "complete"
    /\ metaFile.data.feedCount = 2
    /\ Len(metaFile.data.errors) = 1
    /\ metaFile.data.itemCount = 2
    /\ Len(newsFile.data) = 2

\* C11: in the front end the readIds list, in the page and as saved, holds no
\* id twice and at most MAX_READ ids. Right after markRead(id) the id is in
\* readIds and isRead(id) is true; an id that was in the list leaves the list
\* as it was, a new id is put last, and when that makes more than MAX_READ
\* the ids dropped are those at the front, which were marked first. Right
\* after clearRead the list is empty, and reset-filters leaves it as it was
\* and puts every filter back to its default.
C11_ReadIds ==
    /\ Cardinality({state.readIds[i] : i \in 1..Len(state.readIds)}) = Len(state.readIds)
    /\ Len(state.readIds) <= MAX_READ
    /\ storage # <<>> =>
          /\ Cardinality({storage[1].readIds[i] : i \in 1..Len(storage[1].readIds)})
                = Len(storage[1].readIds)
          /\ Len(storage[1].readIds) <= MAX_READ
    /\ lastEvent.op = "markRead" =>
          LET old == before.readIds
              new == state.readIds
              id == lastEvent.id
              grown == Append(old, id)
              dropped == Len(grown) - MAX_READ
          IN /\ \E i \in 1..Len(new) : new[i] = id
             /\ isRead(id)
             /\ IF \E i \in 1..Len(old) : old[i] = id THEN new = old
                ELSE IF dropped > 0
                     THEN new = SubSeq(grown, dropped + 1, Len(grown))
                     ELSE new = grown
    /\ lastEvent.op = "clearRead" => state.readIds = <<>>
    /\ lastEvent.op = "resetFilters" =>
          /\ state.readIds = before.readIds
          /\ [state EXCEPT !.readIds = <<>>] = base

\* markRead of a new id on a full list: the id marked first is gone, the new
\* one is last, and the list is still full.
C11_Witness ==
    /\ lastEvent.op = "markRead"
    /\ Len(before.readIds) = MAX_READ
    /\ \A i \in 1..MAX_READ : before.readIds[i] # lastEvent.id
    /\ Len(state.readIds) = MAX_READ
    /\ state.readIds[MAX_READ] = lastEvent.id
    /\ \A i \in 1..MAX_READ : state.readIds[i] # before.readIds[1]

====
